---- MODULE Spec2Model ----
(***************************************************************************)
(* VocabBuilder browser extension: the service worker's message router     *)
(* and word store (background.js), the capture flow of the content script  *)
(* (content.js) and the dashboard popup (popup.js), as one state machine   *)
(* over chrome.storage.local and the messages in flight.                   *)
(*                                                                         *)
(* JavaScript strings are sequences of one-character strings, so that      *)
(* concatenation, emptiness and Date.now().toString() are computed.        *)
(***************************************************************************)
EXTENDS Integers, Sequences, FiniteSets

\* ---------------------------------------------------------------- bounds
MaxClock == 2       \* Date.now() takes the values 1..MaxClock
MaxSaves == 2       \* SAVE_WORD messages sent by content scripts
MaxMsgs == 4        \* messages delivered to the router listener
MaxMoves == 1       \* status-move handlers awaiting their storage.set
StoreMsgs == 2      \* messages, the word store alone
StoredLen == 3      \* length of the list persisted by earlier sessions
RouterMsgs == 2     \* messages, the router alone
RaceSaves == 3      \* SAVE_WORD messages, one popup against captures
RaceMsgs == 5       \* messages, one popup against captures
ViewLen == 2        \* length of the list the dashboard shows
TipMsgs == 3        \* messages, the tooltip alone
TipSaves == 2       \* SAVE_WORD messages, the tooltip alone
PrefMsgs == 1       \* messages, the preferences alone
MaxChanges == 2     \* storage.onChanged events not yet delivered
MaxTimers == 1      \* tooltip timers pending that clearTimeout cannot reach
CapMsgs == 2        \* messages, one capture
CapSaves == 1       \* SAVE_WORD messages, one capture
LoadMsgs == 1       \* messages, the popup's load alone
SyncMsgs == 1       \* messages, the popup's handlers alone

VARIABLES
  now,            \* the value Date.now() returns
  vocab_words,    \* chrome.storage.local key 'vocab_words' (a JS value)
  reqs,           \* messages delivered to the onMessage listener, with
                  \* each handler's position, locals and responses sent
  popup,          \* popup document: "closed", "loading", "ready"
  allWords,       \* popup.js: cache of all saved words
  selectedWord,   \* popup.js: <<>> for null, <<w>> for a word
  awaiting,       \* popup handlers awaiting the response of request k
  moveAwait,      \* move handlers awaiting chrome.storage.local.set
  currentTab,     \* popup.js: 'learn' or 'know'
  searchQuery,    \* popup.js: current search filter
  currentLangFilter,  \* popup.js: language filtering state
  dom,            \* popup document: badges, word count, language chips
                  \* and the word cards (each holds its word of allWords)
  vocab_theme,    \* chrome.storage.local key 'vocab_theme'
  vocab_lang,     \* chrome.storage.local key 'vocab_lang'
  isDark,         \* popup.js: theme preference
  langSelect,     \* popup document: value of the lang-select element
  targetLang,     \* content.js: target language
  isLightMode,    \* content.js: theme state
  prefGet,        \* content.js: the initial storage.get and its callback
  changes,        \* storage.onChanged events on their way to content.js
  tooltip         \* content.js: what the tooltip shows, and for which word

popupVars == <<popup, allWords, selectedWord, awaiting, moveAwait>>
viewVars == <<currentTab, searchQuery, currentLangFilter, dom>>
prefVars ==
  <<vocab_theme, vocab_lang, isDark, langSelect, targetLang, isLightMode,
    prefGet, changes>>
vars == <<now, vocab_words, reqs, popupVars, viewVars, prefVars, tooltip>>

\* ------------------------------------------------------------ JS strings
Digits == <<"0", "1", "2", "3", "4", "5", "6", "7", "8", "9">>

RECURSIVE toString(_)
\* Number.prototype.toString of a non-negative integer
toString(n) == IF n < 10 THEN <<Digits[n + 1]>>
               ELSE toString(n \div 10) \o <<Digits[(n % 10) + 1]>>

Empty == <<>>                    \* the string ''
cat == <<"c", "a", "t">>
flor == <<"f", "l", "o", "r">>
qit == <<"q", "i", "t">>         \* a translation of cat
zahra == <<"z", "a", "h">>       \* a translation of flor
learn == <<"l", "e", "a", "r", "n">>
know == <<"k", "n", "o", "w">>
unknown == <<"u", "n", "k", "n", "o", "w", "n">>
en == <<"e", "n">>
es == <<"e", "s">>
ar == <<"a", "r">>
pageUrl == <<"h", "/", "p">>     \* window.location.href
pageHost == <<"h">>              \* window.location.hostname
all == <<"a", "l", "l">>
dark == <<"d", "a", "r", "k">>
light == <<"l", "i", "g", "h", "t">>
Absent == <<"undefined">>        \* a key or field that is not there

\* x || d for a string-or-undefined x ('' and undefined are both falsy;
\* an argument left out is written Empty)
OrStr(x, d) == IF x = Empty THEN d ELSE x
\* x || d for a field or key that may be absent
Or(x, d) == IF x \in {Absent, Empty} THEN d ELSE x

Upper == <<"A", "C", "T">>
Lower == <<"a", "c", "t">>
lowerCase(c) ==
  IF \E i \in DOMAIN Upper : Upper[i] = c
  THEN Lower[CHOOSE i \in DOMAIN Upper : Upper[i] = c]
  ELSE c
\* String.prototype.toLowerCase
toLowerCase(str) == [i \in DOMAIN str |-> lowerCase(str[i])]
RECURSIVE trimStart(_)
trimStart(str) ==
  IF str # <<>> /\ Head(str) = " " THEN trimStart(Tail(str)) ELSE str
RECURSIVE trimEnd(_)
trimEnd(str) ==
  IF str # <<>> /\ str[Len(str)] = " "
  THEN trimEnd(SubSeq(str, 1, Len(str) - 1)) ELSE str
\* String.prototype.trim
trim(str) == trimEnd(trimStart(str))
\* String.prototype.includes
includes(str, q) ==
  \E i \in 0..(Len(str) - Len(q)) : SubSeq(str, i + 1, i + Len(q)) = q

\* ------------------------------------------- JS values of vocab_words
Undefined == [defined |-> FALSE, list |-> <<>>]
Arr(l) == [defined |-> TRUE, list |-> l]

\* -------------------------------------------------------- content.js
Words == {cat, flor}
Translation(w) == IF w = cat THEN qit ELSE zahra

\* content.js saveWord: the wordData object it builds
wordDataOf(word, status, translation, description, sourceLang, t) ==
  [ id |-> toString(t),
    original |-> word,
    translation |-> OrStr(translation, Empty),
    description |-> OrStr(description, Empty),
    status |-> status,
    sourceLang |-> OrStr(sourceLang, unknown),
    timestamp |-> t,
    sourceUrl |-> pageUrl,
    sourceDomain |-> pageHost ]

ClickArgs_keep(view, button, word, translation, detectedLang, notes) ==
  <<word, IF button = "learn" THEN learn ELSE know,
    IF view = "translated" /\ translation # Empty /\ translation # word
    THEN translation ELSE Empty,
    trim(notes),
    IF view = "translated" THEN detectedLang ELSE Empty>>
\* the arguments the Learn / Know click handlers of renderTranslated and
\* renderError pass to saveWord (Empty for an argument left out); notes is
\* the value of vb-desc-input
ClickArgs(view, button, word, translation, detectedLang, notes) ==
  IF view = "translated"
  THEN IF button = "learn"
       THEN LET showTranslation == translation # Empty /\ translation # word
            IN <<word, learn, IF showTranslation THEN translation ELSE Empty,
                 trim(notes), detectedLang>>
       ELSE <<word, know, Empty, Empty, detectedLang>>
  ELSE IF button = "learn"
       THEN <<word, learn, Empty, OrStr(trim(notes), Empty), Empty>>
       ELSE <<word, know, Empty, Empty, Empty>>

\* the same for a tooltip that shows the word's translation, detected as
\* English, with no notes typed
ButtonArgs(word, button) ==
  ClickArgs("translated", button, word, Translation(word), en, Empty)

\* no tooltip on the page. view is what vb-body holds ("none" before
\* createTooltip), header the text of vb-word-text; word, translation and
\* detectedLang are what the body's click handlers close over, notes the
\* value of vb-desc-input; pending holds the mouseup handlers awaiting their
\* TRANSLATE response; hideTimer tells whether the timer hideTimer names is
\* pending, timers counts the pending timers no variable names
NoTooltip ==
  [view |-> "none", visible |-> FALSE, header |-> Empty, currentWord |-> Empty,
   word |-> Empty, translation |-> Empty, detectedLang |-> Empty,
   notes |-> Empty, pending |-> {}, hideTimer |-> FALSE, timers |-> 0]

MinWordLen == 2
MaxWordLen == 100
validWord_short(word) == Len(word) >= 1 /\ Len(word) <= MaxWordLen
\* !(!word || word.length < 2 || word.length > 100)
validWord(word) ==
  word # Empty /\ Len(word) >= MinWordLen /\ Len(word) <= MaxWordLen

\* --------------------------------------------------- JSON / JS values
\* a JS value: t is its type, s its characters (string, number), a its
\* elements (array)
JUndef == [t |-> "undefined", s |-> <<>>, a |-> <<>>]
JNull == [t |-> "null", s |-> <<>>, a |-> <<>>]
JObj == [t |-> "object", s |-> <<>>, a |-> <<>>]     \* {} (no numeric keys)
JStr(s) == [t |-> "string", s |-> s, a |-> <<>>]
JNum(n) == [t |-> "number", s |-> toString(n), a |-> <<>>]
JArr(a) == [t |-> "array", s |-> <<>>, a |-> a]

Nullish(v) == v.t \in {"undefined", "null"}
\* falsy values: undefined, null, '', 0
Falsy(v) == Nullish(v) \/ (v.t = "string" /\ v.s = <<>>) \/ (v.t = "number" /\ v.s = <<"0">>)

\* v[n] for a v that is not nullish (n counts from 0)
Index(v, n) ==
  IF v.t = "array" /\ n < Len(v.a) THEN v.a[n + 1]
  ELSE IF v.t = "string" /\ n < Len(v.s) THEN JStr(<<v.s[n + 1]>>)
  ELSE JUndef

RECURSIVE ElementString(_)
RECURSIVE JoinWith(_, _)
\* Array.prototype.join(sep) of the elements a
JoinWith(a, sep) ==
  IF a = <<>> THEN <<>>
  ELSE IF Len(a) = 1 THEN ElementString(a[1])
  ELSE ElementString(a[1]) \o sep \o JoinWith(Tail(a), sep)
\* the string join uses for an element: '' for null and undefined
ElementString(v) ==
  IF Nullish(v) THEN <<>>
  ELSE IF v.t = "array" THEN JoinWith(v.a, <<",">>)
  ELSE IF v.t = "object" THEN <<"[", "o", "]">>   \* '[object Object]'
  ELSE v.s

\* parsed bodies of the endpoint's response: [[["hola","hello",...],...],
\* null, "en", ...] when well formed
Leaves == {JNull, JStr(<<>>), JStr(<<"h">>), JNum(5)}
Segments ==
  {JNull, JNum(5), JStr(<<"x">>), JArr(<<>>)} \cup {JArr(<<l>>) : l \in Leaves}
Elems0 ==
  {JNull, JNum(5), JStr(<<"x">>), JObj, JArr(<<>>)}
    \cup {JArr(<<g>>) : g \in Segments}
    \cup {JArr(<<g, h>>) : g \in Segments, h \in {JArr(<<JStr(<<"i">>)>>), JArr(<<JNull>>)}}
Bodies ==
  {JNull, JNum(5), JStr(<<>>), JStr(<<"x">>), JObj, JArr(<<>>)}
    \cup {JArr(<<e>>) : e \in Elems0}
    \cup {JArr(<<e, JNull, d>>) : e \in Elems0, d \in {JStr(es), JStr(<<>>)}}
RouterBodies ==
  { JNull,
    JArr(<<JNull, JNull, JStr(en)>>),
    JArr(<<JArr(<<JArr(<<JStr(<<"h">>)>>)>>), JNull, JStr(es)>>) }

\* ------------------------------------------------------ background.js
TypeErrorMsg == <<"T">>            \* a TypeError's message
SyntaxErrorMsg == <<"S">>          \* the message response.json() rejects with
FetchErrorMsg == <<"F">>           \* the message fetch rejects with
StorageErrorMsg == <<"Q">>         \* the message chrome.storage rejects with
TranslationFailedMsg == <<"T", "f">>   \* 'Translation failed'

Thrown(message) ==
  [ok |-> FALSE, translation |-> Empty, detectedLang |-> JUndef, error |-> message]
Returned(translation, detectedLang) ==
  [ok |-> TRUE, translation |-> translation, detectedLang |-> detectedLang, error |-> Empty]

\* data[0]?.map(item => item[0]).join('') : the joined string, or a throw
mapJoin(e0) ==
  IF Nullish(e0) THEN Returned(Empty, JUndef)           \* ?. short-circuits
  ELSE IF e0.t # "array" THEN Thrown(TypeErrorMsg)      \* map is not a function
  ELSE IF \E i \in DOMAIN e0.a : Nullish(e0.a[i])
       THEN Thrown(TypeErrorMsg)                        \* item[0] of null
  ELSE Returned(JoinWith([i \in DOMAIN e0.a |-> Index(e0.a[i], 0)], <<>>), JUndef)

\* translateWord, from the parsed body on
translateWord(word, data) ==
  IF Nullish(data) THEN Thrown(TypeErrorMsg)            \* data[0] of null
  ELSE LET joined == mapJoin(Index(data, 0))
           d2 == Index(data, 2)
       IN IF ~joined.ok THEN joined
          ELSE Returned(OrStr(joined.translation, word),
                        IF Falsy(d2) THEN JStr(en) ELSE d2)

\* result.vocab_words || []   (an array, even empty, is truthy)
OrEmpty_raw(v) == v
OrEmpty(v) == IF v.defined THEN v ELSE Arr(<<>>)

\* getWords: the value the promise resolves with
getWords(result) == OrEmpty(result)

saveWord_push(words, wordData) == Append(words, wordData)
\* saveWord: words.unshift(wordData)
saveWord(words, wordData) == <<wordData>> \o words

RECURSIVE deleteWord_first(_, _)
deleteWord_first(words, wordId) ==
  IF words = <<>> THEN <<>>
  ELSE IF Head(words).id = wordId THEN Tail(words)
  ELSE <<Head(words)>> \o deleteWord_first(Tail(words), wordId)
RECURSIVE deleteWord(_, _)
\* deleteWord: words.filter(w => w.id !== wordId)
deleteWord(words, wordId) ==
  IF words = <<>> THEN <<>>
  ELSE IF Head(words).id # wordId
       THEN <<Head(words)>> \o deleteWord(Tail(words), wordId)
       ELSE deleteWord(Tail(words), wordId)

\* messages
NoWord == <<>>
NoHttp == [parseable |-> FALSE, data |-> JUndef]
SaveWordMsg(wordData) ==
  [type |-> "SAVE_WORD", wordData |-> <<wordData>>, wordId |-> Empty,
   word |-> Empty, targetLang |-> Empty]
GetWordsMsg ==
  [type |-> "GET_WORDS", wordData |-> NoWord, wordId |-> Empty,
   word |-> Empty, targetLang |-> Empty]
DeleteWordMsg(wordId) ==
  [type |-> "DELETE_WORD", wordData |-> NoWord, wordId |-> wordId,
   word |-> Empty, targetLang |-> Empty]
TranslateMsg(word, lang) ==
  [type |-> "TRANSLATE", wordData |-> NoWord, wordId |-> Empty,
   word |-> word, targetLang |-> lang]

\* the message types the listener has a branch for
KnownTypes == {"TRANSLATE", "SAVE_WORD", "GET_WORDS", "DELETE_WORD"}
keepsOpen_always(message) == TRUE
\* the listener's return value: true in each branch, undefined otherwise
keepsOpen(message) == message.type \in KnownTypes

\* a message the listener was called with: the message, whether the
\* listener returned true, the handler's position and locals
\* (result.vocab_words, words, the fetched response), the number of
\* sendResponse calls, the responses not yet received
Req(message) ==
  [ type |-> message.type, wordData |-> message.wordData,
    wordId |-> message.wordId, word |-> message.word,
    targetLang |-> message.targetLang,
    open |-> keepsOpen(message),
    pc |-> IF message.type = "TRANSLATE" THEN "fetch"
           ELSE IF message.type \in KnownTypes THEN "get"
           ELSE "ignored",
    result |-> Undefined, words |-> <<>>, http |-> NoHttp,
    sent |-> 0, resp |-> <<>> ]

\* the responses the listener sends
NoTranslation == [translation |-> Empty, detectedLang |-> JUndef]
Success ==
  [success |-> TRUE, error |-> Empty, words |-> Undefined, translation |-> NoTranslation]
SuccessWords(words) == [Success EXCEPT !.words = words]
SuccessTranslation(r) ==
  [Success EXCEPT !.translation =
     [translation |-> r.translation, detectedLang |-> r.detectedLang]]
onRejected_ok(message) == [Success EXCEPT !.error = message]
\* .catch(err => sendResponse({ success: false, error: err.message }))
onRejected(message) == [Success EXCEPT !.success = FALSE, !.error = message]

\* the handler's promise settles and .then(...) or .catch(...) runs
\* sendResponse (the message and the handler's locals are released)
Settled(r) ==
  [r EXCEPT !.pc = "done", !.wordData = NoWord, !.wordId = Empty,
            !.word = Empty, !.targetLang = Empty,
            !.result = Undefined, !.words = <<>>, !.http = NoHttp]
sendResponse(r, response) ==
  [r EXCEPT !.sent = @ + 1, !.resp = Append(@, response)]
Resolve(r, response) == sendResponse(Settled(r), response)
Reject_uncaught(r, message) == Settled(r)
Reject(r, message) == sendResponse(Settled(r), onRejected(message))

NumSaves == Cardinality({k \in DOMAIN reqs : reqs[k].type = "SAVE_WORD"})

\* chrome.runtime.sendMessage: the listener is called with the message and
\* starts the handler, which issues its first storage.get or fetch
Deliver(message) == reqs' = Append(reqs, Req(message))

\* Date.now() advances
Tick(maxSaves) ==
  /\ now < MaxClock
  /\ NumSaves < maxSaves
  /\ now' = now + 1
  /\ UNCHANGED <<vocab_words, reqs, popupVars, viewVars, prefVars, tooltip>>

\* content.js: a Learn / Know click runs saveWord, which sends SAVE_WORD
ContentSaveWord(word, button, maxSaves, maxMsgs) ==
  /\ NumSaves < maxSaves
  /\ Len(reqs) < maxMsgs
  /\ LET a == ButtonArgs(word, button)
     IN Deliver(SaveWordMsg(wordDataOf(a[1], a[2], a[3], a[4], a[5], now)))
  /\ UNCHANGED <<now, vocab_words, popupVars, viewVars, prefVars, tooltip>>

\* background.js saveWord: storage.get resolves; words is computed and
\* storage.set issued
SaveWordGet(k) ==
  /\ reqs[k].type = "SAVE_WORD" /\ reqs[k].pc = "get"
  /\ LET words == OrEmpty(vocab_words)
     IN reqs' = [reqs EXCEPT ![k] =
          IF words.defined
          THEN [@ EXCEPT !.pc = "set", !.result = vocab_words,
                         !.words = saveWord(words.list, reqs[k].wordData[1])]
          ELSE Reject(@, TypeErrorMsg)]     \* unshift of undefined
  /\ UNCHANGED <<now, vocab_words, popupVars, viewVars, prefVars, tooltip>>

SaveWordSet_merge(k) ==
  /\ reqs[k].type = "SAVE_WORD" /\ reqs[k].pc = "set"
  /\ vocab_words' = Arr(saveWord(OrEmpty(vocab_words).list, reqs[k].wordData[1]))
  /\ reqs' = [reqs EXCEPT ![k] = Resolve(@, Success)]
  /\ UNCHANGED <<now, popupVars, viewVars, prefVars, tooltip>>
\* storage.set takes effect and resolves; the listener responds
SaveWordSet(k) ==
  /\ reqs[k].type = "SAVE_WORD" /\ reqs[k].pc = "set"
  /\ vocab_words' = Arr(reqs[k].words)
  /\ reqs' = [reqs EXCEPT ![k] = Resolve(@, Success)]
  /\ UNCHANGED <<now, popupVars, viewVars, prefVars, tooltip>>

\* background.js getWords
GetWordsGet(k) ==
  /\ reqs[k].type = "GET_WORDS" /\ reqs[k].pc = "get"
  /\ reqs' = [reqs EXCEPT ![k] = Resolve(@, SuccessWords(getWords(vocab_words)))]
  /\ UNCHANGED <<now, vocab_words, popupVars, viewVars, prefVars, tooltip>>

\* background.js deleteWord
DeleteWordGet(k) ==
  /\ reqs[k].type = "DELETE_WORD" /\ reqs[k].pc = "get"
  /\ LET words == OrEmpty(vocab_words)
     IN reqs' = [reqs EXCEPT ![k] =
          IF words.defined
          THEN [@ EXCEPT !.pc = "set", !.result = vocab_words,
                         !.words = deleteWord(words.list, reqs[k].wordId)]
          ELSE Reject(@, TypeErrorMsg)]     \* filter of undefined
  /\ UNCHANGED <<now, vocab_words, popupVars, viewVars, prefVars, tooltip>>

DeleteWordSet(k) ==
  /\ reqs[k].type = "DELETE_WORD" /\ reqs[k].pc = "set"
  /\ vocab_words' = Arr(reqs[k].words)
  /\ reqs' = [reqs EXCEPT ![k] = Resolve(@, Success)]
  /\ UNCHANGED <<now, popupVars, viewVars, prefVars, tooltip>>

\* chrome.storage.local.get rejects
StorageGetFails(k) ==
  /\ reqs[k].type \in {"SAVE_WORD", "GET_WORDS", "DELETE_WORD"}
  /\ reqs[k].pc = "get"
  /\ reqs' = [reqs EXCEPT ![k] = Reject(@, StorageErrorMsg)]
  /\ UNCHANGED <<now, vocab_words, popupVars, viewVars, prefVars, tooltip>>

\* chrome.storage.local.set rejects (quota): nothing is written
StorageSetFails(k) ==
  /\ reqs[k].type \in {"SAVE_WORD", "DELETE_WORD"}
  /\ reqs[k].pc = "set"
  /\ reqs' = [reqs EXCEPT ![k] = Reject(@, StorageErrorMsg)]
  /\ UNCHANGED <<now, vocab_words, popupVars, viewVars, prefVars, tooltip>>

\* what the endpoint does with one request: fetch rejects, or resolves with
\* a status and a body that parses as JSON to data or does not parse
Outcome(rejects, status, parseable, data) ==
  [rejects |-> rejects, status |-> status, parseable |-> parseable, data |-> data]
HttpOk == 200
HttpError == 500
FailedOutcomes ==
  { Outcome(TRUE, 0, FALSE, JUndef),
    Outcome(FALSE, HttpError, TRUE, JArr(<<>>)),
    Outcome(FALSE, HttpOk, FALSE, JUndef) }
OkOutcomes(bodies) == { Outcome(FALSE, HttpOk, TRUE, b) : b \in bodies }

\* response.ok
ResponseOk(status) == status >= 200 /\ status <= 299

\* translateWord: fetch settles; if (!response.ok) throw
TranslateFetch(k, o) ==
  /\ reqs[k].type = "TRANSLATE" /\ reqs[k].pc = "fetch"
  /\ reqs' = [reqs EXCEPT ![k] =
       IF o.rejects THEN Reject(@, FetchErrorMsg)
       ELSE IF ~ResponseOk(o.status) THEN Reject(@, TranslationFailedMsg)
       ELSE [@ EXCEPT !.pc = "json",
                      !.http = [parseable |-> o.parseable, data |-> o.data]]]
  /\ UNCHANGED <<now, vocab_words, popupVars, viewVars, prefVars, tooltip>>

\* translateWord: response.json() settles and the translation is extracted
TranslateJson(k) ==
  /\ reqs[k].type = "TRANSLATE" /\ reqs[k].pc = "json"
  /\ reqs' = [reqs EXCEPT ![k] =
       IF ~reqs[k].http.parseable THEN Reject(@, SyntaxErrorMsg)
       ELSE LET r == translateWord(reqs[k].word, reqs[k].http.data)
            IN IF r.ok THEN Resolve(@, SuccessTranslation(r))
               ELSE Reject(@, r.error)]
  /\ UNCHANGED <<now, vocab_words, popupVars, viewVars, prefVars, tooltip>>

\* --------------------------------------------- content.js: the tooltip
\* hideTooltip: a timer that removes 'visible' is set and hideTimer names
\* it; a timer hideTimer named before stays pending
hideTooltip(t) ==
  IF t.view = "none" THEN t
  ELSE [t EXCEPT !.timers = IF t.hideTimer THEN @ + 1 ELSE @,
                 !.hideTimer = TRUE]
\* hideTooltip can run within the bound on timers
CanHide(t) == t.view = "none" \/ ~t.hideTimer \/ t.timers < MaxTimers

\* renderLoading: the header is the word, the body the spinner
renderLoading(t, word) ==
  [t EXCEPT !.header = word, !.view = "loading", !.word = Empty,
            !.translation = Empty, !.detectedLang = Empty, !.notes = Empty]
\* showTooltip: clearTimeout(hideTimer); classList.add('visible')
showTooltip(t) == [t EXCEPT !.hideTimer = FALSE, !.visible = TRUE]
\* renderTranslated: the body shows the translation, with an empty notes
\* field and buttons for the word
renderTranslated(t, word, translation, detectedLang) ==
  [t EXCEPT !.view = "translated", !.word = word, !.translation = translation,
            !.detectedLang = detectedLang, !.notes = Empty]
\* renderError: notes field and buttons for the word
renderError(t, word) ==
  [t EXCEPT !.view = "error", !.word = word, !.translation = Empty,
            !.detectedLang = Empty, !.notes = Empty]

\* mouseup outside the tooltip with the selection: a trimmed selection of
\* 2..100 characters, other than the word of the visible tooltip, shows
\* the spinner and sends TRANSLATE with the target language; any other
\* selection hides the tooltip, if there is one
MouseUp(selection, maxMsgs) ==
  LET word == trim(selection)
  IN /\ IF ~validWord(word)
        THEN /\ CanHide(tooltip)
             /\ tooltip' = hideTooltip(tooltip)
             /\ UNCHANGED reqs
        ELSE /\ ~(word = tooltip.currentWord /\ tooltip.visible)
             /\ Len(reqs) < maxMsgs
             /\ Deliver(TranslateMsg(word, targetLang))
             /\ tooltip' =
                  [showTooltip(renderLoading(tooltip, word)) EXCEPT
                     !.currentWord = word,
                     !.pending = @ \cup {[req |-> Len(reqs) + 1, word |-> word]}]
     /\ UNCHANGED <<now, vocab_words, popupVars, viewVars, prefVars>>

\* mousedown outside the tooltip
MouseDown ==
  /\ tooltip.view # "none"
  /\ CanHide(tooltip)
  /\ tooltip' = [hideTooltip(tooltip) EXCEPT !.currentWord = Empty]
  /\ UNCHANGED <<now, vocab_words, reqs, popupVars, viewVars, prefVars>>

\* a mouseup handler resumes with its response: renderTranslated on
\* success, renderError otherwise, for the word it was started with
TranslateDone(p) ==
  /\ p \in tooltip.pending
  /\ reqs[p.req].pc = "done" /\ reqs[p.req].resp # <<>>
  /\ LET response == reqs[p.req].resp[1]
         t == [tooltip EXCEPT !.pending = @ \ {p}]
     IN tooltip' =
          IF response.success
          THEN renderTranslated(t, p.word, response.translation.translation,
                                response.translation.detectedLang.s)
          ELSE renderError(t, p.word)
  /\ reqs' = [reqs EXCEPT ![p.req].resp = <<>>]
  /\ UNCHANGED <<now, vocab_words, popupVars, viewVars, prefVars>>

\* the user types into vb-desc-input
TypeNotes(text) ==
  /\ tooltip.visible
  /\ tooltip.view \in {"translated", "error"}
  /\ tooltip.notes # text
  /\ tooltip' = [tooltip EXCEPT !.notes = text]
  /\ UNCHANGED <<now, vocab_words, reqs, popupVars, viewVars, prefVars>>

\* vb-btn-learn / vb-btn-know click: saveWord sends SAVE_WORD
TooltipSave(button, maxSaves, maxMsgs) ==
  /\ tooltip.visible
  /\ tooltip.view \in {"translated", "error"}
  /\ NumSaves < maxSaves
  /\ Len(reqs) < maxMsgs
  /\ LET a == ClickArgs(tooltip.view, button, tooltip.word, tooltip.translation,
                        tooltip.detectedLang, tooltip.notes)
     IN Deliver(SaveWordMsg(wordDataOf(a[1], a[2], a[3], a[4], a[5], now)))
  /\ UNCHANGED <<now, vocab_words, popupVars, viewVars, prefVars, tooltip>>

\* vb-btn-dismiss click
Dismiss ==
  /\ tooltip.visible
  /\ tooltip.view \in {"translated", "error"}
  /\ tooltip' = [tooltip EXCEPT !.visible = FALSE]
  /\ UNCHANGED <<now, vocab_words, reqs, popupVars, viewVars, prefVars>>

\* saveWord's callback: when response?.success, renderSaved shows the
\* indicator and sets a timer that removes 'visible'
SaveDone(k) ==
  /\ reqs[k].type = "SAVE_WORD" /\ reqs[k].pc = "done" /\ reqs[k].resp # <<>>
  /\ IF reqs[k].resp[1].success
     THEN /\ tooltip.timers < MaxTimers
          /\ tooltip' = [tooltip EXCEPT !.view = "saved", !.timers = @ + 1]
     ELSE UNCHANGED tooltip
  /\ reqs' = [reqs EXCEPT ![k].resp = <<>>]
  /\ UNCHANGED <<now, vocab_words, popupVars, viewVars, prefVars>>

\* the timer hideTimer names fires
HideTimer ==
  /\ tooltip.hideTimer
  /\ tooltip' = [tooltip EXCEPT !.hideTimer = FALSE, !.visible = FALSE]
  /\ UNCHANGED <<now, vocab_words, reqs, popupVars, viewVars, prefVars>>

\* a timer of renderSaved, or one hideTimer no longer names, fires
OtherTimer ==
  /\ tooltip.timers > 0
  /\ tooltip' = [tooltip EXCEPT !.timers = @ - 1, !.visible = FALSE]
  /\ UNCHANGED <<now, vocab_words, reqs, popupVars, viewVars, prefVars>>

\* ------------------------------------------ content.js: the preferences
NoPrefGet == [pc |-> "unloaded", theme |-> Absent, lang |-> Absent]
\* the content script starts on a page: defaults, storage.get issued,
\* storage.onChanged listener added
ContentLoad ==
  /\ prefGet.pc = "unloaded"
  /\ targetLang' = ar
  /\ isLightMode' = FALSE
  /\ prefGet' = [prefGet EXCEPT !.pc = "issued"]
  /\ UNCHANGED <<now, vocab_words, reqs, popupVars, viewVars, vocab_theme,
                 vocab_lang, isDark, langSelect, changes, tooltip>>

\* chrome.storage.local reads the two keys for the get
PrefRead ==
  /\ prefGet.pc = "issued"
  /\ prefGet' = [pc |-> "read", theme |-> vocab_theme, lang |-> vocab_lang]
  /\ UNCHANGED <<now, vocab_words, reqs, popupVars, viewVars, vocab_theme,
                 vocab_lang, isDark, langSelect, targetLang, isLightMode,
                 changes, tooltip>>

\* the storage.get callback runs
PrefCallback ==
  /\ prefGet.pc = "read"
  /\ isLightMode' = (prefGet.theme = light)
  /\ targetLang' = Or(prefGet.lang, targetLang)
  /\ prefGet' = [prefGet EXCEPT !.pc = "done"]
  /\ UNCHANGED <<now, vocab_words, reqs, popupVars, viewVars, vocab_theme,
                 vocab_lang, isDark, langSelect, changes, tooltip>>

\* the storage.onChanged listener runs for the oldest undelivered change
OnChanged ==
  /\ changes # <<>>
  /\ IF Head(changes).key = "vocab_theme"
     THEN isLightMode' = (Head(changes).newValue = light) /\ UNCHANGED targetLang
     ELSE targetLang' = Head(changes).newValue /\ UNCHANGED isLightMode
  /\ changes' = Tail(changes)
  /\ UNCHANGED <<now, vocab_words, reqs, popupVars, viewVars, vocab_theme,
                 vocab_lang, isDark, langSelect, prefGet, tooltip>>

\* chrome.storage.local.set of a preference key: the value is stored and a
\* change event leaves for the content script, if it listens
Notify(key, value) ==
  changes' = IF prefGet.pc = "unloaded" THEN changes
             ELSE Append(changes, [key |-> key, newValue |-> value])

\* ------------------------------------------------------------ popup.js
\* the words of ws are named by their positions
Indices(ws) == [i \in 1..Len(ws) |-> i]
filterStatus_learn(ws, idx, tab) == SelectSeq(idx, LAMBDA i : ws[i].status = learn)
\* .filter(w => w.status === currentTab)
filterStatus(ws, idx, tab) == SelectSeq(idx, LAMBDA i : ws[i].status = tab)
filterLang_strict(ws, idx, lang) ==
  SelectSeq(idx, LAMBDA i : lang = all \/ ws[i].sourceLang = lang)
\* the language filter of renderWordList
filterLang(ws, idx, lang) ==
  SelectSeq(idx, LAMBDA i : lang = all \/ Or(ws[i].sourceLang, unknown) = lang)
\* w.f?.toLowerCase().includes(q)
fieldIncludes(f, q) == f # Absent /\ includes(toLowerCase(f), q)
filterSearch_original(ws, idx, q) ==
  SelectSeq(idx, LAMBDA i : q = Empty \/ includes(toLowerCase(ws[i].original), q))
\* the search filter of renderWordList
filterSearch(ws, idx, q) ==
  SelectSeq(idx, LAMBDA i :
    \/ q = Empty
    \/ includes(toLowerCase(ws[i].original), q)
    \/ fieldIncludes(ws[i].translation, q)
    \/ fieldIncludes(ws[i].description, q))
\* renderWordList: the cards, as the positions in ws of their words
renderWordList(ws, tab, lang, q) ==
  filterSearch(ws, filterLang(ws, filterStatus(ws, Indices(ws), tab), lang), q)
RECURSIVE unique(_)
\* [...new Set(a)]: first occurrences, in order
unique(a) ==
  IF a = <<>> THEN <<>>
  ELSE LET u == unique(SubSeq(a, 1, Len(a) - 1))
       IN IF \E i \in DOMAIN u : u[i] = a[Len(a)] THEN u ELSE Append(u, a[Len(a)])
\* renderLanguageFilters: the chips
renderLanguageFilters(ws) ==
  <<all>> \o unique([i \in DOMAIN ws |-> Or(ws[i].sourceLang, unknown)])
\* renderAll: badges, word count, chips and cards
renderAll(ws, tab, lang, q) ==
  [ badgeLearn |-> Len(filterStatus(ws, Indices(ws), learn)),
    badgeKnow |-> Len(filterStatus(ws, Indices(ws), know)),
    wordCount |-> Len(ws),
    chips |-> renderLanguageFilters(ws),
    cards |-> renderWordList(ws, tab, lang, q) ]
\* the document as popup.html has it, before any render
NoDom == [badgeLearn |-> 0, badgeKnow |-> 0, wordCount |-> 0, chips |-> <<>>, cards |-> <<>>]

\* DOMContentLoaded: loadTheme issues its storage.get
DOMContentLoaded ==
  /\ popup = "closed"
  /\ popup' = "theme"
  /\ UNCHANGED <<now, vocab_words, reqs, allWords, selectedWord, awaiting, moveAwait,
                 viewVars, prefVars, tooltip>>

LoadThemeDone_dark ==
  /\ popup = "theme"
  /\ isDark' = (vocab_theme = dark)
  /\ popup' = "lang"
  /\ UNCHANGED <<now, vocab_words, reqs, allWords, selectedWord, awaiting, moveAwait,
                 viewVars, vocab_theme, vocab_lang, langSelect, targetLang,
                 isLightMode, prefGet, changes, tooltip>>
\* loadTheme resumes: result.vocab_theme !== 'light'; loadLang issues its
\* storage.get
LoadThemeDone ==
  /\ popup = "theme"
  /\ isDark' = (vocab_theme # light)
  /\ popup' = "lang"
  /\ UNCHANGED <<now, vocab_words, reqs, allWords, selectedWord, awaiting, moveAwait,
                 viewVars, vocab_theme, vocab_lang, langSelect, targetLang,
                 isLightMode, prefGet, changes, tooltip>>

\* loadLang resumes: select.value = result.vocab_lang || 'ar'; loadWords
\* sends GET_WORDS
PopupOpen(maxMsgs) ==
  /\ popup = "lang"
  /\ Len(reqs) < maxMsgs
  /\ langSelect' = Or(vocab_lang, ar)
  /\ popup' = "loading"
  /\ Deliver(GetWordsMsg)
  /\ awaiting' = awaiting \cup {Len(reqs) + 1}
  /\ UNCHANGED <<now, vocab_words, allWords, selectedWord, moveAwait,
                 viewVars, vocab_theme, vocab_lang, isDark, targetLang,
                 isLightMode, prefGet, changes, tooltip>>

\* response?.words || []
responseWords(resp) ==
  IF resp # <<>> /\ resp[1].words.defined THEN resp[1].words.list ELSE <<>>

LoadWordsDone_error(k) ==
  /\ k \in awaiting /\ reqs[k].type = "GET_WORDS" /\ reqs[k].pc = "done"
  /\ awaiting' = awaiting \ {k}
  /\ reqs' = [reqs EXCEPT ![k].resp = <<>>]
  /\ IF reqs[k].resp # <<>> /\ reqs[k].resp[1].success
     THEN /\ allWords' = responseWords(reqs[k].resp)
          /\ popup' = "ready"
          /\ dom' = renderAll(allWords', currentTab, currentLangFilter, searchQuery)
     ELSE UNCHANGED <<allWords, popup, dom>>
  /\ UNCHANGED <<now, vocab_words, selectedWord, moveAwait,
                 currentTab, searchQuery, currentLangFilter, prefVars, tooltip>>
\* loadWords resumes with the response; setupEventListeners follows
LoadWordsDone(k) ==
  /\ k \in awaiting /\ reqs[k].type = "GET_WORDS" /\ reqs[k].pc = "done"
  /\ allWords' = responseWords(reqs[k].resp)
  /\ popup' = "ready"
  /\ awaiting' = awaiting \ {k}
  /\ reqs' = [reqs EXCEPT ![k].resp = <<>>]
  /\ dom' = renderAll(allWords', currentTab, currentLangFilter, searchQuery)
  /\ UNCHANGED <<now, vocab_words, selectedWord, moveAwait,
                 currentTab, searchQuery, currentLangFilter, prefVars, tooltip>>

\* loadWords resumes without a response: sendMessage rejects and the
\* catch block runs, or it resolves with undefined
LoadWordsLost(k, outcome) ==
  /\ k \in awaiting /\ reqs[k].type = "GET_WORDS" /\ reqs[k].pc # "done"
  /\ allWords' = IF outcome = "rejects" THEN <<>> ELSE responseWords(<<>>)
  /\ popup' = "ready"
  /\ awaiting' = awaiting \ {k}
  /\ dom' = renderAll(allWords', currentTab, currentLangFilter, searchQuery)
  /\ UNCHANGED <<now, vocab_words, reqs, selectedWord, moveAwait,
                 currentTab, searchQuery, currentLangFilter, prefVars, tooltip>>

\* a word card is clicked
openModal(i) ==
  /\ popup = "ready"
  /\ i \in DOMAIN allWords
  /\ \E c \in DOMAIN dom.cards : dom.cards[c] = i
  /\ selectedWord # <<allWords[i]>>
  /\ selectedWord' = <<allWords[i]>>
  /\ UNCHANGED <<now, vocab_words, reqs, popup, allWords, awaiting, moveAwait,
                 viewVars, prefVars, tooltip>>

closeModal ==
  /\ popup = "ready"
  /\ selectedWord # <<>>
  /\ selectedWord' = <<>>
  /\ UNCHANGED <<now, vocab_words, reqs, popup, allWords, awaiting, moveAwait,
                 viewVars, prefVars, tooltip>>

\* allWords.findIndex(w => w.id === id); 0 stands for -1
RECURSIVE findIndexFrom(_, _, _)
findIndexFrom(ws, id, i) ==
  IF i > Len(ws) THEN 0
  ELSE IF ws[i].id = id THEN i ELSE findIndexFrom(ws, id, i + 1)
findIndex(ws, id) == findIndexFrom(ws, id, 1)

toggled_known(status) == IF status = learn THEN <<"k", "n", "o", "w", "n">> ELSE learn
\* selectedWord.status === 'learn' ? 'know' : 'learn'
toggled(status) == IF status = learn THEN know ELSE learn

\* modal-move-btn: allWords[idx].status = newStatus
moveStatus(ws, sel) ==
  LET idx == findIndex(ws, sel.id)
  IN [ws EXCEPT ![idx].status = toggled(sel.status)]

\* modal-move-btn click, up to the await of storage.set
MoveClick ==
  /\ popup = "ready"
  /\ selectedWord # <<>>
  /\ moveAwait < MaxMoves
  /\ LET idx == findIndex(allWords, selectedWord[1].id)
     IN /\ idx # 0
        /\ allWords' = moveStatus(allWords, selectedWord[1])
        /\ selectedWord' = <<allWords'[idx]>>
        /\ vocab_words' = Arr(allWords')
  /\ moveAwait' = moveAwait + 1
  /\ UNCHANGED <<now, reqs, popup, awaiting, viewVars, prefVars, tooltip>>

\* the move handler resumes: closeModal(); renderAll()
MoveDone ==
  /\ moveAwait > 0
  /\ moveAwait' = moveAwait - 1
  /\ selectedWord' = <<>>
  /\ dom' = renderAll(allWords, currentTab, currentLangFilter, searchQuery)
  /\ UNCHANGED <<now, vocab_words, reqs, popup, allWords, awaiting,
                 currentTab, searchQuery, currentLangFilter, prefVars, tooltip>>

\* modal-delete-btn click (confirmed), up to the await of sendMessage
DeleteClick(maxMsgs) ==
  /\ popup = "ready"
  /\ selectedWord # <<>>
  /\ Len(reqs) < maxMsgs
  /\ Deliver(DeleteWordMsg(selectedWord[1].id))
  /\ awaiting' = awaiting \cup {Len(reqs) + 1}
  /\ UNCHANGED <<now, vocab_words, popup, allWords, selectedWord, moveAwait,
                 viewVars, prefVars, tooltip>>

\* the delete handler resumes with the response, whatever it is:
\* allWords.filter(w => w.id !== selectedWord.id) throws a TypeError when
\* selectedWord is null and allWords is not empty, and the handler ends
DeleteDone(k) ==
  /\ k \in awaiting /\ reqs[k].type = "DELETE_WORD" /\ reqs[k].pc = "done"
  /\ awaiting' = awaiting \ {k}
  /\ IF selectedWord = <<>> /\ allWords # <<>>
     THEN UNCHANGED <<allWords, selectedWord, dom>>
     ELSE /\ allWords' = IF selectedWord = <<>> THEN allWords
                         ELSE deleteWord(allWords, selectedWord[1].id)
          /\ selectedWord' = <<>>
          /\ dom' = renderAll(allWords', currentTab, currentLangFilter, searchQuery)
  /\ reqs' = [reqs EXCEPT ![k].resp = <<>>]
  /\ UNCHANGED <<now, vocab_words, popup, moveAwait,
                 currentTab, searchQuery, currentLangFilter, prefVars, tooltip>>

ClearClick_cache ==
  /\ popup = "ready"
  /\ allWords' = <<>>
  /\ dom' = renderAll(allWords', currentTab, currentLangFilter, searchQuery)
  /\ UNCHANGED <<now, vocab_words, reqs, popup, selectedWord, awaiting, moveAwait,
                 currentTab, searchQuery, currentLangFilter, prefVars, tooltip>>
\* clear-btn click (confirmed): the cache and the key are emptied, and
\* renderAll follows the write
ClearClick ==
  /\ popup = "ready"
  /\ allWords' = <<>>
  /\ vocab_words' = Arr(<<>>)
  /\ dom' = renderAll(allWords', currentTab, currentLangFilter, searchQuery)
  /\ UNCHANGED <<now, reqs, popup, selectedWord, awaiting, moveAwait,
                 currentTab, searchQuery, currentLangFilter, prefVars, tooltip>>

\* theme-toggle click: toggleTheme
toggleTheme ==
  /\ popup = "ready"
  /\ Len(changes) < MaxChanges
  /\ isDark' = ~isDark
  /\ vocab_theme' = IF isDark' THEN dark ELSE light
  /\ Notify("vocab_theme", vocab_theme')
  /\ UNCHANGED <<now, vocab_words, reqs, popupVars, viewVars, vocab_lang,
                 langSelect, targetLang, isLightMode, prefGet, tooltip>>

\* lang-select change: the selected value is stored
LangChange(value) ==
  /\ popup = "ready"
  /\ Len(changes) < MaxChanges
  /\ value # langSelect
  /\ langSelect' = value
  /\ vocab_lang' = value
  /\ Notify("vocab_lang", value)
  /\ UNCHANGED <<now, vocab_words, reqs, popupVars, viewVars, vocab_theme,
                 isDark, targetLang, isLightMode, prefGet, tooltip>>

\* a tab is clicked: currentTab = tab.dataset.tab; renderWordList()
TabClick(tab) ==
  /\ popup = "ready"
  /\ currentTab # tab
  /\ currentTab' = tab
  /\ dom' = [dom EXCEPT !.cards = renderWordList(allWords, tab, currentLangFilter, searchQuery)]
  /\ UNCHANGED <<now, vocab_words, reqs, popupVars, searchQuery, currentLangFilter,
                 prefVars, tooltip>>

\* search-input input: searchQuery = value.trim().toLowerCase();
\* renderWordList()
SearchInput(value) ==
  /\ popup = "ready"
  /\ searchQuery' = toLowerCase(trim(value))
  /\ dom' = [dom EXCEPT !.cards = renderWordList(allWords, currentTab, currentLangFilter, searchQuery')]
  /\ UNCHANGED <<now, vocab_words, reqs, popupVars, currentTab, currentLangFilter,
                 prefVars, tooltip>>

\* a language chip is clicked: currentLangFilter = lang;
\* renderLanguageFilters(); renderWordList()
ChipClick(c) ==
  /\ popup = "ready"
  /\ c \in DOMAIN dom.chips
  /\ currentLangFilter' = dom.chips[c]
  /\ dom' = [dom EXCEPT !.chips = renderLanguageFilters(allWords),
                        !.cards = renderWordList(allWords, currentTab, dom.chips[c], searchQuery)]
  /\ UNCHANGED <<now, vocab_words, reqs, popupVars, currentTab, searchQuery,
                 prefVars, tooltip>>

\* -------------------------------------------------------- specification
Init ==
  /\ now = 1
  /\ vocab_words = Undefined
  /\ reqs = <<>>
  /\ popup = "closed"
  /\ allWords = <<>>
  /\ selectedWord = <<>>
  /\ awaiting = {}
  /\ moveAwait = 0
  /\ currentTab = learn
  /\ searchQuery = Empty
  /\ currentLangFilter = all
  /\ dom = NoDom
  /\ vocab_theme = Absent
  /\ vocab_lang = Absent
  /\ isDark = TRUE
  /\ langSelect = Absent
  /\ targetLang = ar
  /\ isLightMode = FALSE
  /\ prefGet = NoPrefGet
  /\ changes = <<>>
  /\ tooltip = NoTooltip

Next ==
  \/ Tick(MaxSaves)
  \/ \E word \in Words, button \in {"learn", "know"} :
       ContentSaveWord(word, button, MaxSaves, MaxMsgs)
  \/ \E k \in DOMAIN reqs : SaveWordGet(k)
  \/ \E k \in DOMAIN reqs : SaveWordSet(k)
  \/ \E k \in DOMAIN reqs : GetWordsGet(k)
  \/ \E k \in DOMAIN reqs : DeleteWordGet(k)
  \/ \E k \in DOMAIN reqs : DeleteWordSet(k)
  \/ DOMContentLoaded
  \/ LoadThemeDone
  \/ PopupOpen(MaxMsgs)
  \/ \E k \in DOMAIN reqs : LoadWordsDone(k)
  \/ \E i \in DOMAIN allWords : openModal(i)
  \/ closeModal
  \/ \E tab \in {learn, know} : TabClick(tab)
  \/ MoveClick
  \/ MoveDone
  \/ DeleteClick(MaxMsgs)
  \/ \E k \in DOMAIN reqs : DeleteDone(k)
  \/ ClearClick

\* the extension: content scripts, service worker and popup
Spec == Init /\ [][Next]_vars

\* ------------------------------------------- the word store alone
\* any sender's SAVE_WORD, GET_WORDS and DELETE_WORD messages, storage
\* free to fail
\* the service worker starts on what earlier sessions persisted
StoredRecords ==
  { wordDataOf(a[1], a[2], a[3], a[4], a[5], t) :
      a \in {ButtonArgs(cat, "learn"), ButtonArgs(flor, "know")}, t \in 1..MaxClock }
StoredLists ==
  UNION { [1..n -> StoredRecords] : n \in 0..StoredLen }
StoreInit ==
  /\ now = 1
  /\ vocab_words \in {Undefined} \cup {Arr(l) : l \in StoredLists}
  /\ reqs = <<>>
  /\ popup = "closed"
  /\ allWords = <<>>
  /\ selectedWord = <<>>
  /\ awaiting = {}
  /\ moveAwait = 0
  /\ currentTab = learn
  /\ searchQuery = Empty
  /\ currentLangFilter = all
  /\ dom = NoDom
  /\ vocab_theme = Absent
  /\ vocab_lang = Absent
  /\ isDark = TRUE
  /\ langSelect = Absent
  /\ targetLang = ar
  /\ isLightMode = FALSE
  /\ prefGet = NoPrefGet
  /\ changes = <<>>
  /\ tooltip = NoTooltip

StoreNext ==
  \/ Tick(StoreMsgs)
  \/ \E word \in Words, button \in {"learn", "know"} :
       ContentSaveWord(word, button, StoreMsgs, StoreMsgs)
  \/ Len(reqs) < StoreMsgs /\ Deliver(GetWordsMsg)
       /\ UNCHANGED <<now, vocab_words, popupVars, viewVars, prefVars, tooltip>>
  \/ \E t \in 1..MaxClock :
       Len(reqs) < StoreMsgs /\ Deliver(DeleteWordMsg(toString(t)))
         /\ UNCHANGED <<now, vocab_words, popupVars, viewVars, prefVars, tooltip>>
  \/ \E k \in DOMAIN reqs : SaveWordGet(k)
  \/ \E k \in DOMAIN reqs : SaveWordSet(k)
  \/ \E k \in DOMAIN reqs : GetWordsGet(k)
  \/ \E k \in DOMAIN reqs : DeleteWordGet(k)
  \/ \E k \in DOMAIN reqs : DeleteWordSet(k)
  \/ \E k \in DOMAIN reqs : StorageGetFails(k)
  \/ \E k \in DOMAIN reqs : StorageSetFails(k)

StoreSpec == StoreInit /\ [][StoreNext]_vars

\* ------------------------------------------------- the router alone
\* one message of each kind's shape, any outcome of storage and endpoint
RouterNext ==
  \/ ContentSaveWord(cat, "learn", RouterMsgs, RouterMsgs)
  \/ Len(reqs) < RouterMsgs /\ Deliver(GetWordsMsg)
       /\ UNCHANGED <<now, vocab_words, popupVars, viewVars, prefVars, tooltip>>
  \/ Len(reqs) < RouterMsgs /\ Deliver(DeleteWordMsg(toString(1)))
       /\ UNCHANGED <<now, vocab_words, popupVars, viewVars, prefVars, tooltip>>
  \/ Len(reqs) < RouterMsgs /\ Deliver(TranslateMsg(cat, ar))
       /\ UNCHANGED <<now, vocab_words, popupVars, viewVars, prefVars, tooltip>>
  \/ \E k \in DOMAIN reqs : SaveWordGet(k)
  \/ \E k \in DOMAIN reqs : SaveWordSet(k)
  \/ \E k \in DOMAIN reqs : GetWordsGet(k)
  \/ \E k \in DOMAIN reqs : DeleteWordGet(k)
  \/ \E k \in DOMAIN reqs : DeleteWordSet(k)
  \/ \E k \in DOMAIN reqs : StorageGetFails(k)
  \/ \E k \in DOMAIN reqs : StorageSetFails(k)
  \/ \E k \in DOMAIN reqs, o \in FailedOutcomes \cup OkOutcomes(RouterBodies) :
       TranslateFetch(k, o)
  \/ \E k \in DOMAIN reqs : TranslateJson(k)

\* a step of request k's handler
Handle(k) ==
  \/ SaveWordGet(k) \/ SaveWordSet(k) \/ GetWordsGet(k)
  \/ DeleteWordGet(k) \/ DeleteWordSet(k)
  \/ StorageGetFails(k) \/ StorageSetFails(k)
  \/ \E o \in FailedOutcomes \cup OkOutcomes(RouterBodies) : TranslateFetch(k, o)
  \/ TranslateJson(k)

\* the storage and network operation a handler awaits settles, and the
\* handler's continuation then runs
RouterSpec ==
  /\ Init /\ [][RouterNext]_vars
  /\ \A k \in 1..RouterMsgs : WF_vars(k \in DOMAIN reqs /\ Handle(k))

\* ----------------------------------------------- the listener alone
\* the router's messages, and messages of other types: a type in another
\* case, a misspelt type, no type
OtherMsgs ==
  { [SaveWordMsg(wordDataOf(flor, learn, zahra, Empty, es, 1)) EXCEPT !.type = "SAVE"],
    [DeleteWordMsg(toString(1)) EXCEPT !.type = "delete_word"],
    [GetWordsMsg EXCEPT !.type = "undefined"] }
ListenerNext ==
  \/ RouterNext
  \/ \E message \in OtherMsgs :
       Len(reqs) < RouterMsgs /\ Deliver(message)
         /\ UNCHANGED <<now, vocab_words, popupVars, viewVars, prefVars, tooltip>>

ListenerSpec == Init /\ [][ListenerNext]_vars

\* ---------------------------------------------- translateWord alone
TranslateNext ==
  \/ \E word \in Words \cup {<<"a">>} :
       Len(reqs) < 1 /\ Deliver(TranslateMsg(word, ar))
         /\ UNCHANGED <<now, vocab_words, popupVars, viewVars, prefVars, tooltip>>
  \/ \E k \in DOMAIN reqs, o \in FailedOutcomes \cup OkOutcomes(Bodies) :
       TranslateFetch(k, o)
  \/ \E k \in DOMAIN reqs : TranslateJson(k)

TranslateSpec == Init /\ [][TranslateNext]_vars

\* ------------------------------- one popup against concurrent captures
\* captures of one word with the Learn button, the popup's load, selection,
\* move and delete; storage does not fail
RaceNext ==
  \/ Tick(RaceSaves)
  \/ ContentSaveWord(cat, "learn", RaceSaves, RaceMsgs)
  \/ \E k \in DOMAIN reqs : SaveWordGet(k)
  \/ \E k \in DOMAIN reqs : SaveWordSet(k)
  \/ \E k \in DOMAIN reqs : GetWordsGet(k)
  \/ \E k \in DOMAIN reqs : DeleteWordGet(k)
  \/ \E k \in DOMAIN reqs : DeleteWordSet(k)
  \/ DOMContentLoaded
  \/ LoadThemeDone
  \/ PopupOpen(RaceMsgs)
  \/ \E k \in DOMAIN reqs : LoadWordsDone(k)
  \/ \E i \in DOMAIN allWords : openModal(i)
  \/ MoveClick
  \/ MoveDone
  \/ DeleteClick(RaceMsgs)
  \/ \E k \in DOMAIN reqs : DeleteDone(k)

RaceSpec == Init /\ [][RaceNext]_vars

\* ------------------------------------------------ the dashboard alone
\* the popup, loaded, over a list of saved words: tabs, search, language
\* chips, the modal, move and clear
CatUpper == <<"C", "a", "t">>
\* saved by the tooltip's buttons, and records of earlier versions of the
\* extension, which leave fields out
ViewRecords ==
  { wordDataOf(cat, learn, qit, Empty, en, 1),
    wordDataOf(flor, know, Empty, Empty, es, 2),
    wordDataOf(CatUpper, know, Empty, Empty, Empty, 1),
    [wordDataOf(flor, learn, Empty, <<"a", " ", "c">>, Empty, 2) EXCEPT !.sourceLang = Absent],
    [wordDataOf(cat, learn, Empty, Empty, Empty, 2)
       EXCEPT !.translation = Absent, !.description = Absent, !.sourceLang = Absent] }
ViewLists == UNION { [1..n -> ViewRecords] : n \in 0..ViewLen }
\* what the user types into search-input
Queries ==
  { Empty, <<" ">>, <<"C", "A", "T">>, <<" ", "c", "a", "t", " ">>, <<"q">>,
    <<"a", " ", "c">>, <<"z">> }

ViewInit ==
  /\ now = 1
  /\ allWords \in ViewLists
  /\ vocab_words = Arr(allWords)
  /\ reqs = <<>>
  /\ popup = "ready"
  /\ selectedWord = <<>>
  /\ awaiting = {}
  /\ moveAwait = 0
  /\ currentTab = learn
  /\ searchQuery = Empty
  /\ currentLangFilter = all
  /\ dom = renderAll(allWords, learn, all, Empty)
  /\ vocab_theme = Absent
  /\ vocab_lang = Absent
  /\ isDark = TRUE
  /\ langSelect = ar
  /\ targetLang = ar
  /\ isLightMode = FALSE
  /\ prefGet = NoPrefGet
  /\ changes = <<>>
  /\ tooltip = NoTooltip

ViewNext ==
  \/ \E tab \in {learn, know} : TabClick(tab)
  \/ \E value \in Queries : SearchInput(value)
  \/ \E c \in DOMAIN dom.chips : ChipClick(c)
  \/ \E i \in DOMAIN allWords : openModal(i)
  \/ closeModal
  \/ MoveClick
  \/ MoveDone
  \/ ClearClick

ViewSpec == ViewInit /\ [][ViewNext]_vars

\* ------------------------------------------- the popup's handlers
\* the popup, loaded, over a list of saved words, no content script saving:
\* chips, tabs, the modal, move, delete and clear; storage free to fail
SyncNext ==
  \/ \E tab \in {learn, know} : TabClick(tab)
  \/ \E c \in DOMAIN dom.chips : ChipClick(c)
  \/ \E i \in DOMAIN allWords : openModal(i)
  \/ closeModal
  \/ MoveClick
  \/ MoveDone
  \/ DeleteClick(SyncMsgs)
  \/ \E k \in DOMAIN reqs : DeleteWordGet(k)
  \/ \E k \in DOMAIN reqs : DeleteWordSet(k)
  \/ \E k \in DOMAIN reqs : StorageGetFails(k)
  \/ \E k \in DOMAIN reqs : StorageSetFails(k)
  \/ \E k \in DOMAIN reqs : DeleteDone(k)
  \/ ClearClick

SyncSpec == ViewInit /\ [][SyncNext]_vars

\* -------------------------------------------------- the tooltip alone
\* selection, translation, notes, Learn / Know and the save that follows
Notes == {Empty, <<"n">>, <<" ", "n", " ">>}
TooltipNext ==
  \/ Tick(TipSaves)
  \/ \E word \in Words : MouseUp(word, TipMsgs)
  \/ MouseDown
  \/ \E k \in DOMAIN reqs, o \in FailedOutcomes \cup OkOutcomes(RouterBodies) :
       TranslateFetch(k, o)
  \/ \E k \in DOMAIN reqs : TranslateJson(k)
  \/ \E p \in tooltip.pending : TranslateDone(p)
  \/ \E text \in Notes : TypeNotes(text)
  \/ \E button \in {"learn", "know"} : TooltipSave(button, TipSaves, TipMsgs)
  \/ Dismiss
  \/ \E k \in DOMAIN reqs : SaveWordGet(k)
  \/ \E k \in DOMAIN reqs : SaveWordSet(k)
  \/ \E k \in DOMAIN reqs : SaveDone(k)
  \/ HideTimer
  \/ OtherTimer

TooltipSpec == Init /\ [][TooltipNext]_vars

\* --------------------------------------------------------- one capture
\* one selection translated and saved, the selection of any length, the
\* endpoint detecting Spanish or no language
Long100 == [i \in 1..MaxWordLen |-> "x"]
Selections ==
  { Empty, <<"a">>, <<" ", "a", "b", " ">>, <<" ">> \o Long100, Long100 \o <<"x">> }
LangBodies ==
  { JNull,
    JArr(<<JArr(<<JArr(<<JStr(<<"h">>)>>)>>), JNull, JStr(es)>>),
    JArr(<<JArr(<<JArr(<<JStr(<<"h">>)>>)>>), JNull, JNull>>),
    JArr(<<JArr(<<JArr(<<JStr(<<"h">>)>>)>>)>>) }
CaptureNext ==
  \/ Tick(CapSaves)
  \/ \E selection \in Selections : MouseUp(selection, CapMsgs)
  \/ MouseDown
  \/ \E k \in DOMAIN reqs, o \in FailedOutcomes \cup OkOutcomes(LangBodies) :
       TranslateFetch(k, o)
  \/ \E k \in DOMAIN reqs : TranslateJson(k)
  \/ \E p \in tooltip.pending : TranslateDone(p)
  \/ \E text \in Notes : TypeNotes(text)
  \/ \E button \in {"learn", "know"} : TooltipSave(button, CapSaves, CapMsgs)
  \/ Dismiss
  \/ \E k \in DOMAIN reqs : SaveWordGet(k)
  \/ \E k \in DOMAIN reqs : SaveWordSet(k)
  \/ \E k \in DOMAIN reqs : SaveDone(k)
  \/ HideTimer
  \/ OtherTimer

CaptureSpec == Init /\ [][CaptureNext]_vars

\* ------------------------------------------------- the popup's load
\* the popup opens on what earlier sessions persisted; the storage read
\* and the message channel are free to fail
LoadInit ==
  /\ now = 1
  /\ vocab_words \in {Undefined} \cup {Arr(l) : l \in ViewLists}
  /\ reqs = <<>>
  /\ popup = "closed"
  /\ allWords = <<>>
  /\ selectedWord = <<>>
  /\ awaiting = {}
  /\ moveAwait = 0
  /\ currentTab = learn
  /\ searchQuery = Empty
  /\ currentLangFilter = all
  /\ dom = NoDom
  /\ vocab_theme = Absent
  /\ vocab_lang = Absent
  /\ isDark = TRUE
  /\ langSelect = Absent
  /\ targetLang = ar
  /\ isLightMode = FALSE
  /\ prefGet = NoPrefGet
  /\ changes = <<>>
  /\ tooltip = NoTooltip

LoadNext ==
  \/ DOMContentLoaded
  \/ LoadThemeDone
  \/ PopupOpen(LoadMsgs)
  \/ \E k \in DOMAIN reqs : GetWordsGet(k)
  \/ \E k \in DOMAIN reqs : StorageGetFails(k)
  \/ \E k \in DOMAIN reqs : LoadWordsDone(k)
  \/ \E k \in DOMAIN reqs, outcome \in {"rejects", "undefined"} :
       LoadWordsLost(k, outcome)
  \/ \E tab \in {learn, know} : TabClick(tab)
  \/ \E i \in DOMAIN allWords : openModal(i)
  \/ closeModal

LoadSpec == LoadInit /\ [][LoadNext]_vars

\* ---------------------------------------------- the preferences alone
\* the popup's load, theme toggle and language selection, and a content
\* script's initial read and change events; the keys as earlier sessions
\* left them
Langs == {ar, es}
PrefInit ==
  /\ now = 1
  /\ vocab_words = Undefined
  /\ reqs = <<>>
  /\ popup = "closed"
  /\ allWords = <<>>
  /\ selectedWord = <<>>
  /\ awaiting = {}
  /\ moveAwait = 0
  /\ currentTab = learn
  /\ searchQuery = Empty
  /\ currentLangFilter = all
  /\ dom = NoDom
  /\ vocab_theme \in {Absent, dark, light}
  /\ vocab_lang \in {Absent} \cup Langs
  /\ isDark = TRUE
  /\ langSelect = Absent
  /\ targetLang = ar
  /\ isLightMode = FALSE
  /\ prefGet = NoPrefGet
  /\ changes = <<>>
  /\ tooltip = NoTooltip

PrefNext ==
  \/ DOMContentLoaded
  \/ LoadThemeDone
  \/ PopupOpen(PrefMsgs)
  \/ \E k \in DOMAIN reqs : GetWordsGet(k)
  \/ \E k \in DOMAIN reqs : LoadWordsDone(k)
  \/ toggleTheme
  \/ \E value \in Langs : LangChange(value)
  \/ ContentLoad
  \/ PrefRead
  \/ PrefCallback
  \/ OnChanged

PrefSpec == PrefInit /\ [][PrefNext]_vars

\* ================================================================ claims
\* what GET_WORDS returns for a stored value: the list, [] when absent
Listed(v) == IF v.defined THEN v.list ELSE <<>>

\* request k ends in this step with a {success: true} response
Answered(k) ==
  /\ reqs[k].pc # "done" /\ reqs'[k].pc = "done"
  /\ reqs'[k].sent = reqs[k].sent + 1
  /\ reqs'[k].resp # <<>>
  /\ reqs'[k].resp[Len(reqs'[k].resp)].success

\* C1: a SAVE_WORD(w) whose handler read the list L and whose write finds
\* the store as it was read (nothing interleaved) is answered success and
\* leaves the persisted list equal to w followed by L, so w, equal in every
\* field, is the first (most recent) record GET_WORDS returns.
C1_SaveWordPrepends ==
  [][\A k \in DOMAIN reqs :
       (reqs[k].type = "SAVE_WORD" /\ reqs[k].pc = "set" /\ Answered(k)
          /\ vocab_words = reqs[k].result)
       => /\ vocab_words'.defined
          /\ Listed(vocab_words') = <<reqs[k].wordData[1]>> \o Listed(vocab_words)
          /\ Head(Listed(vocab_words')) = reqs[k].wordData[1]]_vars

C1_Witness ==
  /\ Len(reqs) = 2
  /\ \A k \in DOMAIN reqs :
       /\ reqs[k].type = "SAVE_WORD" /\ reqs[k].pc = "done"
       /\ reqs[k].resp # <<>> /\ reqs[k].resp[1].success
  /\ Len(Listed(vocab_words)) = 4
  /\ Listed(vocab_words)[1].timestamp > Listed(vocab_words)[2].timestamp
  /\ Listed(vocab_words)[1].original = flor

\* the positions of L whose record does not have the id
Kept(L, id) == {i \in DOMAIN L : L[i].id # id}
\* L2 is L with exactly the records of that id removed, the rest in order
IsWithout(L2, L, id) ==
  /\ Len(L2) = Cardinality(Kept(L, id))
  /\ \A i \in Kept(L, id) : L2[Cardinality({j \in Kept(L, id) : j <= i})] = L[i]

\* C3: a DELETE_WORD(id) whose handler read the list L and whose write
\* finds the store as it was read is answered success and leaves L without
\* exactly the records of that id, the others in their order; an absent id
\* leaves what GET_WORDS returns unchanged, and a second delete of the id
\* would remove nothing.
C3_DeleteWordFilters ==
  [][\A k \in DOMAIN reqs :
       (reqs[k].type = "DELETE_WORD" /\ reqs[k].pc = "set" /\ Answered(k)
          /\ vocab_words = reqs[k].result)
       => LET L == Listed(vocab_words)
              L2 == Listed(vocab_words')
              id == reqs[k].wordId
          IN /\ IsWithout(L2, L, id)
             /\ (Kept(L, id) = DOMAIN L) => (L2 = L)
             /\ IsWithout(L2, L2, id)]_vars

C3_Witness ==
  /\ Len(reqs) = 1
  /\ reqs[1].type = "DELETE_WORD" /\ reqs[1].pc = "done"
  /\ reqs[1].resp # <<>> /\ reqs[1].resp[1].success
  /\ Len(Listed(vocab_words)) = 2
  /\ Listed(vocab_words)[1].id = Listed(vocab_words)[2].id
  /\ Listed(vocab_words)[1].original # Listed(vocab_words)[2].original

\* C6: every request gets exactly one response, success or failure: never
\* two, none after the handler ended, and (given that storage and network
\* operations settle) eventually one.
C6_WellFormed(response) ==
  \/ response.success /\ response.error = Empty
  \/ ~response.success /\ response.error # Empty
C6_ExactlyOneResponse ==
  /\ [](\A k \in DOMAIN reqs :
          /\ reqs[k].sent <= 1
          /\ (reqs[k].pc = "done") => (reqs[k].sent = 1)
          /\ Len(reqs[k].resp) = reqs[k].sent
          /\ \A i \in DOMAIN reqs[k].resp : C6_WellFormed(reqs[k].resp[i]))
  /\ [][\A k \in DOMAIN reqs : (reqs[k].pc = "done") => (reqs'[k] = reqs[k])]_vars
  /\ \A k \in 1..RouterMsgs :
       (k \in DOMAIN reqs) ~> (k \in DOMAIN reqs /\ reqs[k].pc = "done" /\ reqs[k].sent = 1)

C6_Witness ==
  /\ Len(reqs) = RouterMsgs
  /\ \A k \in DOMAIN reqs : reqs[k].pc = "done" /\ reqs[k].sent = 1
  /\ \E k \in DOMAIN reqs : ~reqs[k].resp[1].success
  /\ \E k \in DOMAIN reqs : reqs[k].resp[1].success

\* the step in which the operation behind request k fails
FailStep(k) ==
  \/ StorageGetFails(k)
  \/ StorageSetFails(k)
  \/ \E o \in FailedOutcomes : (o.rejects \/ ~ResponseOk(o.status)) /\ TranslateFetch(k, o)
  \/ ~reqs[k].http.parseable /\ TranslateJson(k)
Http500Step(k) ==
  \E o \in FailedOutcomes : ~o.rejects /\ o.status = 500 /\ TranslateFetch(k, o)

\* C7: when the storage or network operation behind a request fails, the
\* response sent is {success: false, error: message}, never success; an
\* HTTP 500 gives a TRANSLATE failure with a non-empty message.
C7_FailureIsReported ==
  [][\A k \in DOMAIN reqs :
       /\ FailStep(k) =>
            /\ reqs'[k].sent = reqs[k].sent + 1
            /\ reqs'[k].resp = <<[success |-> FALSE,
                                  error |-> reqs'[k].resp[1].error,
                                  words |-> Undefined,
                                  translation |-> NoTranslation]>>
       /\ Http500Step(k) =>
            /\ ~reqs'[k].resp[1].success
            /\ reqs'[k].resp[1].error # Empty]_vars

C7_Witness ==
  \E k \in DOMAIN reqs :
    /\ reqs[k].type = "TRANSLATE" /\ reqs[k].pc = "done"
    /\ ~reqs[k].resp[1].success
    /\ reqs[k].resp[1].error = TranslationFailedMsg

\* C10: with vocab_words never written, GET_WORDS is answered
\* {success: true, words: []}, and SAVE_WORD / DELETE_WORD go on as on the
\* empty list: they write [w] and [].
C10_AbsentStoreIsEmpty ==
  [][\A k \in DOMAIN reqs :
       ~vocab_words.defined =>
         /\ GetWordsGet(k) =>
              reqs'[k].resp = <<[success |-> TRUE, error |-> Empty,
                                 words |-> Arr(<<>>),
                                 translation |-> NoTranslation]>>
         /\ SaveWordGet(k) =>
              reqs'[k].pc = "set" /\ reqs'[k].words = <<reqs[k].wordData[1]>>
         /\ DeleteWordGet(k) =>
              reqs'[k].pc = "set" /\ reqs'[k].words = <<>>
         /\ (SaveWordSet(k) /\ ~reqs[k].result.defined) =>
              vocab_words' = Arr(<<reqs[k].wordData[1]>>)
         /\ (DeleteWordSet(k) /\ ~reqs[k].result.defined) =>
              vocab_words' = Arr(<<>>)]_vars

C10_Witness ==
  /\ ~vocab_words.defined
  /\ \E k \in DOMAIN reqs :
       /\ reqs[k].type = "GET_WORDS" /\ reqs[k].pc = "done"
       /\ reqs[k].resp # <<>> /\ reqs[k].resp[1].success
       /\ reqs[k].resp[1].words = Arr(<<>>)

\* the eight fields a status move must keep
SameButStatus(r, r2) ==
  /\ r2.id = r.id /\ r2.timestamp = r.timestamp /\ r2.original = r.original
  /\ r2.translation = r.translation /\ r2.description = r.description
  /\ r2.sourceLang = r.sourceLang /\ r2.sourceUrl = r.sourceUrl
  /\ r2.sourceDomain = r.sourceDomain
WithId(L, id) == {i \in DOMAIN L : L[i].id = id}

\* C2: the status move on the selected word changes only the status of the
\* record with that id in the persisted list: where the list holds one
\* record of that id before the move and one after it, the two agree on
\* id, timestamp, original, translation, description, sourceLang,
\* sourceUrl and sourceDomain.
C2_MoveKeepsOtherFields ==
  [][MoveClick =>
       LET id == selectedWord[1].id
           L == Listed(vocab_words)
           L2 == Listed(vocab_words')
       IN (Cardinality(WithId(L, id)) = 1 /\ Cardinality(WithId(L2, id)) = 1)
            => \A i \in WithId(L, id), j \in WithId(L2, id) : SameButStatus(L[i], L2[j])]_vars

\* C4: no two records of the persisted list have the same id.
C4_UniqueIds ==
  \A i, j \in DOMAIN Listed(vocab_words) :
    i # j => Listed(vocab_words)[i].id # Listed(vocab_words)[j].id

\* the text the first-segment fragments of a parsed body concatenate to
\* ('' where the shape holds none)
Fragment(seg) ==
  IF seg.t = "array" /\ Len(seg.a) >= 1 /\ seg.a[1].t \in {"string", "number"}
  THEN seg.a[1].s
  ELSE IF seg.t = "string" /\ Len(seg.s) >= 1 THEN <<seg.s[1]>> ELSE <<>>
RECURSIVE Concat(_)
Concat(ss) == IF ss = <<>> THEN <<>> ELSE Head(ss) \o Concat(Tail(ss))
Fragments(data) ==
  IF data.t = "array" /\ Len(data.a) >= 1 /\ data.a[1].t = "array"
  THEN Concat([i \in DOMAIN data.a[1].a |-> Fragment(data.a[1].a[i])])
  ELSE <<>>

\* the TRANSLATE response of request k, sent in this step, is a success
\* carrying this translation
TranslatedTo(k, text) ==
  /\ reqs'[k].sent = reqs[k].sent + 1
  /\ reqs'[k].resp # <<>>
  /\ reqs'[k].resp[1].success
  /\ reqs'[k].resp[1].translation.translation = text

\* C8: for a non-empty text and any HTTP-ok, parseable response,
\* translateWord does not fail and returns a non-empty translation, the
\* text itself when the fragments concatenate to the empty string.
C8_NeverEmptyTranslation ==
  [][\A k \in DOMAIN reqs :
       (TranslateJson(k) /\ reqs[k].http.parseable /\ reqs[k].word # Empty)
       => /\ reqs'[k].resp # <<>> /\ reqs'[k].resp[1].success
          /\ reqs'[k].resp[1].translation.translation # Empty
          /\ (Fragments(reqs[k].http.data) = Empty)
               => TranslatedTo(k, reqs[k].word)]_vars

\* a parsed body of missing or malformed shape: null or not an array,
\* element 0 absent, element 0 not an array, or a null segment
MalformedShape(data) ==
  \/ data.t # "array"
  \/ Len(data.a) = 0
  \/ data.a[1].t # "array"
  \/ \E i \in DOMAIN data.a[1].a : data.a[1].a[i].t = "null"

\* C9: for an HTTP-ok, parseable response of missing or malformed shape,
\* translateWord does not fail and returns the input text.
C9_ToleratesMalformedShape ==
  [][\A k \in DOMAIN reqs :
       (TranslateJson(k) /\ reqs[k].http.parseable
          /\ MalformedShape(reqs[k].http.data))
       => TranslatedTo(k, reqs[k].word)]_vars

\* the positions of L holding the record r, whatever its status
Holding(L, r) == {i \in DOMAIN L : SameButStatus(r, L[i])}

\* C5: no store operation reorders existing records: two records that are
\* in the persisted list both before and after a step, each once, are in
\* the same relative order before and after it.
C5_NoReorder ==
  [][LET L == Listed(vocab_words)
         L2 == Listed(vocab_words')
     IN \A i, j \in DOMAIN L :
          (i < j /\ Cardinality(Holding(L, L[i])) = 1
                 /\ Cardinality(Holding(L, L[j])) = 1
                 /\ Cardinality(Holding(L2, L[i])) = 1
                 /\ Cardinality(Holding(L2, L[j])) = 1)
          => \A p \in Holding(L2, L[i]), q \in Holding(L2, L[j]) : p < q]_vars

\* C11: every record of the persisted list has status 'learn' or 'know'.
C11_StatusIsLearnOrKnow ==
  \A i \in DOMAIN Listed(vocab_words) :
    Listed(vocab_words)[i].status \in {learn, know}

\* a persisted record moved from 'learn' to 'know' (the Know button stores
\* no translation)
C11_Witness ==
  \E i \in DOMAIN Listed(vocab_words) :
    /\ Listed(vocab_words)[i].status = know
    /\ Listed(vocab_words)[i].translation # Empty

\* C12: every confirmed clear-btn click, a second one in a row included,
\* leaves the persisted list and the popup cache empty; on an empty or
\* absent store the list GET_WORDS returns is what it was.
C12_ClearIsIdempotent ==
  [][ClearClick =>
       /\ allWords' = <<>>
       /\ vocab_words' = Arr(<<>>)
       /\ Listed(vocab_words') = <<>>
       /\ (Listed(vocab_words) = <<>>) => (Listed(vocab_words') = Listed(vocab_words))]_vars

\* a cleared store and cache after a completed save, the clear button
\* still there to click again
C12_Witness ==
  /\ popup = "ready"
  /\ allWords = <<>>
  /\ vocab_words = Arr(<<>>)
  /\ \E k \in DOMAIN reqs :
       reqs[k].type = "SAVE_WORD" /\ reqs[k].pc = "done" /\ reqs[k].sent = 1
  /\ \A k \in DOMAIN reqs : reqs[k].type # "DELETE_WORD"

\* C19: every write of vocab_words is the storage.set of a SAVE_WORD or
\* DELETE_WORD handler of the service worker.
C19_OnlyRouterWrites ==
  [][(vocab_words' # vocab_words)
       => \E k \in DOMAIN reqs : SaveWordSet(k) \/ DeleteWordSet(k)]_vars

\* C20: a status move writes a list computed from the persisted list as it
\* is at the move: every persisted record other than the moved one is
\* still persisted after it.
C20_MoveKeepsLaterSaves ==
  [][MoveClick =>
       \A i \in DOMAIN Listed(vocab_words) :
         (Listed(vocab_words)[i].id # selectedWord[1].id)
           => \E j \in DOMAIN Listed(vocab_words') :
                Listed(vocab_words')[j] = Listed(vocab_words)[i]]_vars

Range(f) == {f[i] : i \in DOMAIN f}
\* q is a substring of str
IsSubstring(q, str) ==
  \E a \in 0..Len(str) : \E b \in a..Len(str) : SubSeq(str, a + 1, b) = q

\* C13: the status filter with 'learn' and with 'know' gives two disjoint
\* results that together are the whole list, and the Learning badge plus
\* the Known badge is the word count shown.
C13_StatusFiltersPartition ==
  LET L == Range(filterStatus(allWords, Indices(allWords), learn))
      K == Range(filterStatus(allWords, Indices(allWords), know))
  IN /\ L \cap K = {}
     /\ L \cup K = DOMAIN allWords
     /\ dom.badgeLearn + dom.badgeKnow = dom.wordCount
     /\ (moveAwait = 0 /\ popup = "ready") =>
          /\ dom.badgeLearn = Cardinality({i \in DOMAIN allWords : allWords[i].status = learn})
          /\ dom.badgeKnow = Cardinality({i \in DOMAIN allWords : allWords[i].status = know})
          /\ dom.wordCount = Len(allWords)

C13_Witness ==
  /\ dom.badgeLearn = 1 /\ dom.badgeKnow = 1 /\ dom.wordCount = 2
  /\ \E i \in DOMAIN allWords :
       allWords[i].status = know /\ allWords[i].translation = qit

\* the record matches the query: the query, compared case-insensitively,
\* is a substring of original, translation or description (an absent field
\* matches nothing); the empty query matches every record
Matches(r, q) ==
  \/ q = Empty
  \/ \E f \in {r.original, r.translation, r.description} :
       f # Absent /\ IsSubstring(toLowerCase(q), toLowerCase(f))
\* the cards shown after this step are the records of the tab and language
\* that satisfy Keep, in the order of the list
CardsAre(Keep(_)) ==
  dom'.cards = SelectSeq(renderWordList(allWords', currentTab', currentLangFilter', Empty),
                         LAMBDA i : Keep(allWords'[i]))

\* C14 as stated: the search filter keeps exactly the records that match
\* the query as typed.
C14_SearchMatchesQuery ==
  [][\A value \in Queries :
       SearchInput(value) => CardsAre(LAMBDA r : Matches(r, value))]_vars

\* C14, amended: the search filter keeps exactly the records that match
\* the query with its leading and trailing whitespace removed; an empty or
\* all-whitespace query keeps every record.
C14_SearchMatchesTrimmedQuery ==
  [][\A value \in Queries :
       SearchInput(value) => CardsAre(LAMBDA r : Matches(r, trim(value)))]_vars

\* a query that shows a record matched through its description only, and
\* drops another record of the tab
C14_Witness ==
  /\ searchQuery = <<"a", " ", "c">>
  /\ moveAwait = 0
  /\ Len(dom.cards) = 1
  /\ allWords[dom.cards[1]].original = flor
  /\ \E i \in DOMAIN allWords : allWords[i].status = currentTab /\ i # dom.cards[1]

\* sourceLang, 'unknown' when absent
SourceLangOf(r) == IF r.sourceLang = Absent THEN unknown ELSE r.sourceLang

\* C15: with 'all' the language filter keeps every record (of the tab and
\* search); with a language code it keeps exactly those whose sourceLang,
\* 'unknown' when absent, is that code, in the order of the list.
C15_LanguageFilter ==
  (moveAwait = 0 /\ popup = "ready") =>
    LET base == renderWordList(allWords, currentTab, all, searchQuery)
    IN /\ (currentLangFilter = all) => (dom.cards = base)
       /\ dom.cards = SelectSeq(base, LAMBDA i :
            currentLangFilter = all \/ SourceLangOf(allWords[i]) = currentLangFilter)

\* the 'unknown' chip shows a record without sourceLang and drops another
C15_Witness ==
  /\ currentLangFilter = unknown
  /\ moveAwait = 0
  /\ Len(dom.cards) = 1
  /\ allWords[dom.cards[1]].sourceLang = Absent
  /\ \E i \in DOMAIN allWords : allWords[i].status = currentTab /\ i # dom.cards[1]

\* C16: a word saved through the Know button, after a successful or a
\* failed translation, is sent and stored with status 'know', an empty
\* translation and an empty description, whatever translation is shown and
\* whatever is typed in the notes field.
C16_KnowStoresNoTranslation ==
  /\ [](\A i \in DOMAIN Listed(vocab_words) :
          Listed(vocab_words)[i].status = know
            => /\ Listed(vocab_words)[i].translation = Empty
               /\ Listed(vocab_words)[i].description = Empty)
  /\ [][TooltipSave("know", TipSaves, TipMsgs) =>
         LET w == reqs'[Len(reqs')].wordData[1]
         IN /\ w.original = tooltip.word
            /\ w.status = know
            /\ w.translation = Empty
            /\ w.description = Empty]_vars

\* a stored Know word, saved from a tooltip that shows a translation and
\* has notes typed in
C16_Witness ==
  /\ tooltip.view \in {"translated", "saved"}
  /\ tooltip.translation = <<"h">>
  /\ tooltip.notes = <<"n">>
  /\ \E i \in DOMAIN Listed(vocab_words) :
       /\ Listed(vocab_words)[i].status = know
       /\ Listed(vocab_words)[i].original = tooltip.word
       /\ Listed(vocab_words)[i].sourceLang = es

\* C17: with vocab_theme absent the popup and the content script are dark;
\* with vocab_lang absent the popup selects 'ar' and the content script
\* translates to 'ar'; with vocab_words absent the popup's list is empty.
C17_DefaultsWhenAbsent ==
  /\ (vocab_theme = Absent) => (isDark /\ ~isLightMode)
  /\ (vocab_lang = Absent) =>
       /\ targetLang = ar
       /\ (popup \in {"loading", "ready"}) => (langSelect = ar)
  /\ (~vocab_words.defined /\ popup = "ready") =>
       (allWords = <<>> /\ dom.cards = <<>> /\ dom.wordCount = 0)

\* popup and content script both loaded, all three keys absent
C17_Witness ==
  /\ vocab_theme = Absent /\ vocab_lang = Absent /\ ~vocab_words.defined
  /\ popup = "ready"
  /\ prefGet.pc = "done"
  /\ langSelect = ar /\ isDark /\ targetLang = ar

\* C18: once the content script's storage.get callback and every change
\* event have been delivered, isLightMode is (vocab_theme = 'light') and
\* targetLang is the stored vocab_lang ('ar' when absent).
C18_TooltipFollowsPreferences ==
  (prefGet.pc = "done" /\ changes = <<>>) =>
    /\ isLightMode = (vocab_theme = light)
    /\ targetLang = IF vocab_lang = Absent THEN ar ELSE vocab_lang

\* C21: a SAVE_WORD or DELETE_WORD handler whose write finds the store
\* changed since it read it (another mutation wrote in between) is still
\* answered success, and writes the list it read with its own change only:
\* what was written in between is lost.
C21_StaleWriteLosesUpdate ==
  [][\A k \in DOMAIN reqs :
       (reqs[k].type \in {"SAVE_WORD", "DELETE_WORD"} /\ reqs[k].pc = "set"
          /\ reqs'[k].pc = "done" /\ vocab_words # reqs[k].result)
       => /\ Answered(k)
          /\ IF reqs[k].type = "SAVE_WORD"
             THEN Listed(vocab_words') =
                    <<reqs[k].wordData[1]>> \o Listed(reqs[k].result)
             ELSE IsWithout(Listed(vocab_words'), Listed(reqs[k].result),
                            reqs[k].wordId)]_vars

\* two SAVE_WORD requests, the only messages sent and the popup never
\* opened, both answered success, and one record persisted
C21_Witness ==
  /\ popup = "closed"
  /\ Len(reqs) = 2
  /\ \A k \in DOMAIN reqs :
       /\ reqs[k].type = "SAVE_WORD" /\ reqs[k].pc = "done"
       /\ reqs[k].sent = 1 /\ reqs[k].resp # <<>> /\ reqs[k].resp[1].success
  /\ Len(Listed(vocab_words)) = 1

\* C22: every record the capture flow saves has the detected source
\* language as sourceLang, or 'unknown' when none was determined (the
\* translation failed, or the response carried no language code); the
\* endpoint here detects 'es' or nothing, so sourceLang is 'es' or 'unknown'.
C22_SourceLangOrUnknown ==
  \A i \in DOMAIN Listed(vocab_words) :
    Listed(vocab_words)[i].sourceLang \in {es, unknown}

\* C24: TRANSLATE is sent only for a trimmed selection of 2 to 100
\* characters, and every record sent and stored has such an original; a
\* selection that trims to fewer or more characters sends nothing, and
\* changes nothing but the tooltip's hide timers (nothing without a tooltip).
C24_SelectionIsValidated ==
  /\ [](\A i \in DOMAIN Listed(vocab_words) :
          /\ Len(Listed(vocab_words)[i].original) \in 2..100
          /\ trim(Listed(vocab_words)[i].original) = Listed(vocab_words)[i].original)
  /\ [][Len(reqs') > Len(reqs) =>
          LET m == reqs'[Len(reqs')]
              w == IF m.type = "TRANSLATE" THEN m.word ELSE m.wordData[1].original
          IN /\ Len(w) \in 2..100
             /\ \E selection \in Selections : trim(selection) = w]_vars
  /\ [][\A selection \in Selections :
          (MouseUp(selection, CapMsgs) /\ Len(trim(selection)) \notin 2..100)
          => /\ reqs' = reqs
             /\ tooltip.view = "none" => tooltip' = tooltip
             /\ [tooltip' EXCEPT !.hideTimer = tooltip.hideTimer,
                                 !.timers = tooltip.timers] = tooltip
             /\ tooltip'.view # "none" => tooltip'.hideTimer]_vars

\* a stored word of 100 characters, its tooltip hidden by a selection that
\* was too short or too long
C24_Witness ==
  /\ \E i \in DOMAIN Listed(vocab_words) : Len(Listed(vocab_words)[i].original) = 100
  /\ ~tooltip.visible
  /\ tooltip.currentWord = Long100
  /\ tooltip.view = "saved"

\* C25: the body of the tooltip (the translation shown, and the word and
\* translation its Learn / Know buttons save) is for the word in its header.
C25_BodyIsForHeader ==
  (tooltip.view \in {"translated", "error"}) => (tooltip.word = tooltip.header)

\* C23: when the popup's GET_WORDS fails (sendMessage rejects, resolves
\* with no response, or the response is {success:false}) loadWords ends
\* with allWords empty and the empty list rendered, and the persisted list
\* is as it was.
C23_FailedLoadIsEmptyList ==
  [][\A k \in DOMAIN reqs :
       (k \in awaiting /\ k \notin awaiting' /\ reqs[k].type = "GET_WORDS"
          /\ (reqs[k].resp = <<>> \/ ~reqs[k].resp[1].success))
       => /\ allWords' = <<>>
          /\ popup' = "ready"
          /\ dom' = [badgeLearn |-> 0, badgeKnow |-> 0, wordCount |-> 0,
                     chips |-> <<all>>, cards |-> <<>>]
          /\ vocab_words' = vocab_words]_vars

\* the popup loaded and shows no word, two words being persisted, after
\* the router answered {success:false}
C23_Witness ==
  /\ popup = "ready"
  /\ allWords = <<>> /\ dom.wordCount = 0
  /\ Len(Listed(vocab_words)) = 2
  /\ reqs # <<>> /\ reqs[1].pc = "done" /\ reqs[1].sent = 1

\* C26: with no popup handler in flight (and no content script saving) the
\* popup's cache allWords is the persisted list.
C26_CacheIsPersistedList ==
  (popup = "ready" /\ awaiting = {} /\ moveAwait = 0)
    => (allWords = Listed(vocab_words))

\* C27: the active language filter is one of the chips rendered.
C27_FilterHasChip ==
  (popup = "ready") => (\E c \in DOMAIN dom.chips : dom.chips[c] = currentLangFilter)

\* C28: a message of a type the listener has no branch for gets no
\* response, the listener does not return true for it, no handler ever
\* runs for it, and its delivery leaves vocab_words as it was.
C28_UnknownTypeIsIgnored ==
  /\ [](\A k \in DOMAIN reqs :
          reqs[k].type \notin {"TRANSLATE", "SAVE_WORD", "GET_WORDS", "DELETE_WORD"}
            => /\ reqs[k].sent = 0 /\ reqs[k].resp = <<>>
               /\ ~reqs[k].open
               /\ reqs[k].pc = "ignored")
  /\ [][\A k \in DOMAIN reqs' :
          reqs'[k].type \notin {"TRANSLATE", "SAVE_WORD", "GET_WORDS", "DELETE_WORD"}
            => IF k \in DOMAIN reqs THEN reqs'[k] = reqs[k]
               ELSE vocab_words' = vocab_words]_vars

\* a message of type 'SAVE' carrying a word, delivered after a SAVE_WORD
\* was answered, the store holding that one word
C28_Witness ==
  /\ Len(reqs) = 2
  /\ reqs[1].type = "SAVE_WORD" /\ reqs[1].pc = "done" /\ reqs[1].sent = 1
  /\ reqs[2].type = "SAVE" /\ reqs[2].wordData # NoWord
  /\ Len(Listed(vocab_words)) = 1
  /\ Listed(vocab_words)[1].original = cat

====
